---- MODULE Spec2Model ----
(***************************************************************************)
(* Ownership-scoped CRUD handlers of the yarn inventory tracker over the   *)
(* relational store: Yarn, Project, YarnTag, YarnOrganization, YarnPhoto   *)
(* rows and the implicit many-to-many join table _ProjectToYarn.           *)
(*                                                                         *)
(* Every route handler is an operator from (store, session, path id,       *)
(* request body) to (store, status, body); the action of the same name     *)
(* applies it to the current store.  A handler's awaited storage calls run *)
(* one after the other, and a throw inside the try block leaves whatever   *)
(* the earlier calls of that request already wrote.                        *)
(***************************************************************************)
EXTENDS Integers, Sequences, FiniteSets, TLC

VARIABLES yarns, projects, tags, organization, photos, links, freeIds, last,
          form, typed, event, inflight

vars == <<yarns, projects, tags, organization, photos, links, freeIds, last,
          form, typed, event, inflight>>

----------------------------------------------------------------------------
(* Bounds of the enumerated requests *)

MaxTags == 2
MaxIds == 2
MaxPhotos == 1
MaxEntries == 2
MaxPieces == 3
MaxUploads == 2

----------------------------------------------------------------------------
(* Identities *)

Users == {"A", "B"}
NoSession == "none"
Sessions == Users \cup {NoSession}

YarnIds == {"y1", "y2"}
ProjectIds == {"p1", "p2"}
MissingId == "zz"
NoYarnId == ""
OrgTypeIds == {"t1"}

Brands == {"b1", "b2"}
ProjectNames == {"n1", "n2"}
TagNames == {"x", "y"}
Urls == {"u"}

(* An optional JSON field: <<>> is undefined, <<v>> is the supplied value v *)
Undefined == <<>>
Some(v) == <<v>>
Opt(S) == {Undefined} \cup {Some(v) : v \in S}
IsDefined(o) == o # Undefined
Val(o) == o[1]

SeqsUpTo(S, n) == UNION {[1..k -> S] : k \in 0..n}
Range(s) == {s[i] : i \in 1..Len(s)}

----------------------------------------------------------------------------
(* The store as one value *)

DB == [yarns |-> yarns, projects |-> projects, tags |-> tags,
       organization |-> organization, photos |-> photos, links |-> links]

store == <<yarns, projects, tags, organization, photos, links>>

ProjectsOf(db, y) == {p \in DOMAIN db.projects : <<y, p>> \in db.links}
YarnsOf(db, p) == {y \in DOMAIN db.yarns : <<y, p>> \in db.links}

findUniqueAnyOwner(rows, id, userId) == id \in DOMAIN rows

(* prisma.<model>.findUnique({ where: { id, userId } }) *)
findUnique(rows, id, userId) ==
    id \in DOMAIN rows /\ rows[id].userId = userId

HasSessionUnchecked(user) == TRUE

(* session?.user?.id is truthy *)
HasSession(user) == user # NoSession

----------------------------------------------------------------------------
(* Request bodies (the parsed JSON) and responses *)

NoBody == [brand |-> Undefined, name |-> Undefined, tags |-> Undefined,
           organization |-> Undefined, projectIds |-> Undefined,
           yarnIds |-> Undefined, url |-> Undefined,
           currColor |-> Undefined, nextColor |-> Undefined,
           dyeStatus |-> Undefined, weight |-> Undefined,
           userId |-> Undefined, file |-> Undefined, isPrimary |-> Undefined]

Error(msg) == [kind |-> "error", text |-> msg, yarns |-> {}, projects |-> {}]
Message(msg) == [kind |-> "message", text |-> msg, yarns |-> {}, projects |-> {}]
Rows(ys, ps) == [kind |-> "rows", text |-> "", yarns |-> ys, projects |-> ps]

(* db: the store when the handler returns; storage: whether it made any
   storage call; parsed: whether it reached request.json() *)
Resp(db, status, body, storage, parsed) ==
    [db |-> db, status |-> status, body |-> body, storage |-> storage,
     parsed |-> parsed]

Unauthorized(db) == Resp(db, 401, Error("Unauthorized"), FALSE, FALSE)

(* The outcome of a run of awaited storage calls: ok = FALSE when one threw,
   db = what the calls before the throw had written *)
Done(db) == [ok |-> TRUE, db |-> db]
Threw(db) == [ok |-> FALSE, db |-> db]

----------------------------------------------------------------------------
(* Storage calls *)

updateYarnDataOverwrite(db, id, body) ==
    [db EXCEPT
        !.yarns[id].brand = IF IsDefined(body.brand) THEN Val(body.brand) ELSE @,
        !.yarns[id].currColor =
            IF IsDefined(body.currColor) THEN Val(body.currColor) ELSE <<>>,
        !.yarns[id].nextColor =
            IF IsDefined(body.nextColor) THEN Val(body.nextColor) ELSE <<>>,
        !.yarns[id].dyeStatus =
            IF IsDefined(body.dyeStatus) THEN Val(body.dyeStatus)
            ELSE "NOT_TO_BE_DYED",
        !.yarns[id].weight =
            IF IsDefined(body.weight) THEN Val(body.weight) ELSE @,
        !.yarns[id].userId =
            IF IsDefined(body.userId) THEN Val(body.userId) ELSE @]

updateYarnDataForwardOnly(db, id, body) ==
    [db EXCEPT
        !.yarns[id].brand = IF IsDefined(body.brand) THEN Val(body.brand) ELSE @,
        !.yarns[id].currColor =
            IF IsDefined(body.currColor) THEN Val(body.currColor) ELSE @,
        !.yarns[id].nextColor =
            IF IsDefined(body.nextColor) THEN Val(body.nextColor) ELSE @,
        !.yarns[id].dyeStatus =
            IF IsDefined(body.dyeStatus) /\ @ # "HAS_BEEN_DYED"
            THEN Val(body.dyeStatus) ELSE @]

(* prisma.yarn.update({ where: { id }, data: yarnData }): the fields of the
   body that are left after organization, tags and projectIds are taken out,
   userId among them, are written as sent *)
updateYarnData(db, id, body) ==
    [db EXCEPT
        !.yarns[id].brand = IF IsDefined(body.brand) THEN Val(body.brand) ELSE @,
        !.yarns[id].currColor =
            IF IsDefined(body.currColor) THEN Val(body.currColor) ELSE @,
        !.yarns[id].nextColor =
            IF IsDefined(body.nextColor) THEN Val(body.nextColor) ELSE @,
        !.yarns[id].dyeStatus =
            IF IsDefined(body.dyeStatus) THEN Val(body.dyeStatus) ELSE @,
        !.yarns[id].weight =
            IF IsDefined(body.weight) THEN Val(body.weight) ELSE @,
        !.yarns[id].userId =
            IF IsDefined(body.userId) THEN Val(body.userId) ELSE @]

(* prisma.project.update({ where: { id }, data: projectData }) *)
updateProjectData(db, id, body) ==
    [db EXCEPT
        !.projects[id].name = IF IsDefined(body.name) THEN Val(body.name) ELSE @,
        !.projects[id].userId =
            IF IsDefined(body.userId) THEN Val(body.userId) ELSE @]

deleteOrganizationSkipped(db, id) == db

(* prisma.yarnOrganization.deleteMany({ where: { yarnId: id } }) *)
deleteOrganization(db, id) == [db EXCEPT !.organization[id] = <<>>]

(* prisma.$transaction(organization.map(org => create(...))): every row or,
   when a typeId names no YarnOrganizationType (foreign key), none *)
createOrganization(db, id, entries) ==
    IF \A i \in 1..Len(entries) : entries[i].typeId \in OrgTypeIds
    THEN Done([db EXCEPT !.organization[id] = @ \o entries])
    ELSE Threw(db)

deleteTagsSkipped(db, id) == db

(* tags: { deleteMany: {} } *)
deleteTags(db, id) == [db EXCEPT !.tags[id] = <<>>]

RECURSIVE Distinct(_)
Distinct(s) ==
    IF s = <<>> THEN <<>>
    ELSE LET r == Distinct(SubSeq(s, 1, Len(s) - 1))
         IN IF s[Len(s)] \in Range(r) THEN r ELSE Append(r, s[Len(s)])

createTagsDistinct(db, id, names) ==
    [db EXCEPT !.tags[id] = @ \o Distinct(names)]

(* tags: { create: tags.map(tag => ({ name: tag })) } *)
createTags(db, id, names) == [db EXCEPT !.tags[id] = @ \o names]

setProjectsStepwise(db, id, ids) ==
    IF Range(ids) \subseteq DOMAIN db.projects
    THEN Done([db EXCEPT !.links =
                  {l \in @ : l[1] # id} \cup {<<id, p>> : p \in Range(ids)}])
    ELSE Threw([db EXCEPT !.links =
                  {l \in @ : l[1] # id}
                  \cup {<<id, p>> : p \in Range(ids) \cap DOMAIN db.projects}])

setProjectsConnectOnly(db, id, ids) ==
    IF Range(ids) \subseteq DOMAIN db.projects
    THEN Done([db EXCEPT !.links = @ \cup {<<id, p>> : p \in Range(ids)}])
    ELSE Threw(db)

(* projects: { set: [], connect: ids.map(id => ({ id })) } in one update: a
   nested write is one transaction, and connect throws when an id names no
   row; no filter on the connected row's userId *)
setProjects(db, id, ids) ==
    IF Range(ids) \subseteq DOMAIN db.projects
    THEN Done([db EXCEPT !.links =
                  {l \in @ : l[1] # id} \cup {<<id, p>> : p \in Range(ids)}])
    ELSE Threw(db)

setYarnsConnectOnly(db, id, ids) ==
    IF Range(ids) \subseteq DOMAIN db.yarns
    THEN Done([db EXCEPT !.links = @ \cup {<<y, id>> : y \in Range(ids)}])
    ELSE Threw(db)

(* yarns: { set: [], connect: yarnIds.map(yarnId => ({ id: yarnId })) } *)
setYarns(db, id, ids) ==
    IF Range(ids) \subseteq DOMAIN db.yarns
    THEN Done([db EXCEPT !.links =
                  {l \in @ : l[2] # id} \cup {<<y, id>> : y \in Range(ids)}])
    ELSE Threw(db)

deleteYarnRowOnly(db, id) ==
    [db EXCEPT !.yarns = [y \in DOMAIN @ \ {id} |-> @[y]]]

(* prisma.yarn.delete: the row, and by ON DELETE CASCADE its tags, photos,
   organization entries and join rows *)
deleteYarn(db, id) ==
    [db EXCEPT !.yarns = [y \in DOMAIN @ \ {id} |-> @[y]],
               !.tags[id] = <<>>,
               !.organization[id] = <<>>,
               !.photos[id] = <<>>,
               !.links = {l \in @ : l[1] # id}]

(* prisma.project.delete: the row and its join rows *)
deleteProject(db, id) ==
    [db EXCEPT !.projects = [p \in DOMAIN @ \ {id} |-> @[p]],
               !.links = {l \in @ : l[2] # id}]

----------------------------------------------------------------------------
(* /api/yarns/[id] *)

YarnRow(db, id) == Rows({id}, ProjectsOf(db, id))

YarnGET(db, user, id) ==
    IF ~HasSession(user) THEN Unauthorized(db)
    ELSE IF ~findUnique(db.yarns, id, user)
    THEN Resp(db, 404, Error("Yarn not found"), TRUE, FALSE)
    ELSE Resp(db, 200, YarnRow(db, id), TRUE, FALSE)

(* if (organization) { deleteMany; if (organization.length > 0) $transaction } *)
patchOrganization(prev, id, body) ==
    IF ~prev.ok \/ ~IsDefined(body.organization) THEN prev
    ELSE IF Len(Val(body.organization)) > 0
    THEN createOrganization(deleteOrganization(prev.db, id), id,
                            Val(body.organization))
    ELSE Done(deleteOrganization(prev.db, id))

patchTagsWhenNonEmpty(prev, id, body) ==
    IF ~prev.ok \/ ~IsDefined(body.tags) \/ Len(Val(body.tags)) = 0 THEN prev
    ELSE Done(createTags(deleteTags(prev.db, id), id, Val(body.tags)))

(* if (tags !== undefined) { deleteMany; if (tags.length > 0) create } *)
patchTags(prev, id, body) ==
    IF ~prev.ok \/ ~IsDefined(body.tags) THEN prev
    ELSE IF Len(Val(body.tags)) > 0
    THEN Done(createTags(deleteTags(prev.db, id), id, Val(body.tags)))
    ELSE Done(deleteTags(prev.db, id))

(* if (projectIds !== undefined) { update projects: set + connect } *)
patchProjects(prev, id, body) ==
    IF ~prev.ok \/ ~IsDefined(body.projectIds) THEN prev
    ELSE setProjects(prev.db, id, Val(body.projectIds))

YarnPATCH(db, user, id, body) ==
    IF ~HasSession(user) THEN Unauthorized(db)
    ELSE IF ~findUnique(db.yarns, id, user)
    THEN Resp(db, 404, Error("Yarn not found"), TRUE, FALSE)
    ELSE LET scalars == Done(updateYarnData(db, id, body))
             org == patchOrganization(scalars, id, body)
             tgs == patchTags(org, id, body)
             prj == patchProjects(tgs, id, body)
         IN IF prj.ok
            THEN Resp(prj.db, 200, YarnRow(prj.db, id), TRUE, TRUE)
            ELSE Resp(prj.db, 500, Error("Error updating yarn"), TRUE, TRUE)

YarnDELETE(db, user, id) ==
    IF ~HasSession(user) THEN Unauthorized(db)
    ELSE IF ~findUnique(db.yarns, id, user)
    THEN Resp(db, 404, Error("Yarn not found"), TRUE, FALSE)
    ELSE Resp(deleteYarn(deleteOrganization(db, id), id), 200,
              Message("Yarn deleted successfully"), TRUE, FALSE)

(* The earlier yarn route: projectIds is not split off, so it reaches
   prisma.yarn.update inside yarnData, which rejects the unknown argument
   before writing *)
LegacyYarnPATCH(db, user, id, body) ==
    IF ~HasSession(user) THEN Unauthorized(db)
    ELSE IF ~findUnique(db.yarns, id, user)
    THEN Resp(db, 404, Error("Yarn not found"), TRUE, FALSE)
    ELSE LET scalars == IF IsDefined(body.projectIds) THEN Threw(db)
                        ELSE Done(updateYarnData(db, id, body))
             org == patchOrganization(scalars, id, body)
             tgs == patchTags(org, id, body)
         IN IF tgs.ok
            THEN Resp(tgs.db, 200, YarnRow(tgs.db, id), TRUE, TRUE)
            ELSE Resp(tgs.db, 500, Error("Error updating yarn"), TRUE, TRUE)

(* The earlier create route: it passes name, color and length, which the
   Yarn model no longer has, so prisma.yarn.create rejects the call *)
YarnPOST(db, user, body) ==
    IF ~HasSession(user) THEN Unauthorized(db)
    ELSE IF ~IsDefined(body.name)
    THEN Resp(db, 400, Error("Name is required"), FALSE, TRUE)
    ELSE Resp(db, 500, Error("Something went wrong"), TRUE, TRUE)

(* /api/yarns: findMany({ where: { userId } }) *)
YarnsGET(db, user) ==
    IF ~HasSession(user) THEN Unauthorized(db)
    ELSE Resp(db, 200,
              Rows({y \in DOMAIN db.yarns : db.yarns[y].userId = user}, {}),
              TRUE, FALSE)

(* prisma.yarnPhoto.create *)
createYarnPhoto(db, id, url, isPrimary) ==
    [db EXCEPT !.photos[id] = Append(@, [url |-> url, isPrimary |-> isPrimary])]

(* prisma.yarnPhoto.updateMany({ where: { yarnId, isPrimary: true },
   data: { isPrimary: false } }) *)
updateMany(db, id) ==
    IF id \in DOMAIN db.photos
    THEN [db EXCEPT !.photos[id] =
             [i \in DOMAIN @ |-> [@[i] EXCEPT !.isPrimary = FALSE]]]
    ELSE db

(* /api/yarns/[id]/photos *)
PhotoPOST(db, user, id, body) ==
    IF ~HasSession(user) THEN Unauthorized(db)
    ELSE IF ~IsDefined(body.url)
    THEN Resp(db, 400, Error("Photo URL is required"), FALSE, TRUE)
    ELSE IF ~findUnique(db.yarns, id, user)
    THEN Resp(db, 404, Error("Yarn not found"), TRUE, TRUE)
    ELSE Resp(createYarnPhoto(db, id, Val(body.url), FALSE), 200,
              [kind |-> "photo", text |-> Val(body.url), yarns |-> {},
               projects |-> {}],
              TRUE, TRUE)

(* /api/yarn/{id}/photos in the earlier yarn route: the pattern has no named
   group, so match(...)?.groups is undefined and id is never set *)
LegacyPhotoPOST(db, user, id, body) ==
    IF ~HasSession(user) THEN Unauthorized(db)
    ELSE Resp(db, 400, Error("Invalid yarn ID"), FALSE, FALSE)

LegacyPhotoDELETE(db, user, id, body) ==
    IF ~HasSession(user) THEN Unauthorized(db)
    ELSE Resp(db, 400, Error("Invalid yarn ID"), FALSE, FALSE)

(* formData.get('isPrimary') === 'true' *)
isPrimary(body) == body.isPrimary = Some("true")

(* /api/upload/yarn-photo: the form's file and yarnId; the row is created
   for whichever Yarn the id names *)
UploadPOST(db, user, id, body) ==
    IF ~HasSession(user) THEN Unauthorized(db)
    ELSE IF ~IsDefined(body.file) \/ id = NoYarnId
    THEN Resp(db, 400, Error("Missing file or yarnId"), FALSE, TRUE)
    ELSE IF id \notin DOMAIN db.yarns
    THEN Resp(db, 500, Error("Failed to upload file"), TRUE, TRUE)
    ELSE Resp(createYarnPhoto(db, id, Val(body.file), isPrimary(body)), 200,
              [kind |-> "photo", text |-> Val(body.file), yarns |-> {},
               projects |-> {}],
              TRUE, TRUE)

(* /api/yarn-organization-types *)
OrganizationTypesGET(db, user) ==
    IF ~HasSession(user) THEN Unauthorized(db)
    ELSE Resp(db, 200,
              [kind |-> "types", text |-> "", yarns |-> {}, projects |-> {}],
              TRUE, FALSE)

----------------------------------------------------------------------------
(* /api/projects *)

ProjectRowWithoutYarns(db, id) == Rows({}, {id})

(* findUnique({ where: { id }, include: { yarns: true } }) *)
ProjectRow(db, id) == Rows(YarnsOf(db, id), {id})

(* findMany({ where, include: { yarns: true } }); a search or tag parameter
   puts notes or tags in the where clause, which the Project model lacks *)
ProjectsGET(db, user, filtered) ==
    IF ~HasSession(user) THEN Unauthorized(db)
    ELSE IF filtered
    THEN Resp(db, 500, Error("Something went wrong"), TRUE, FALSE)
    ELSE LET mine == {p \in DOMAIN db.projects : db.projects[p].userId = user}
         IN Resp(db, 200, Rows(UNION {YarnsOf(db, p) : p \in mine}, mine),
                 TRUE, FALSE)

(* prisma.project.create with a nested connect of yarnIds: one transaction *)
ProjectPOST(db, user, body, newId) ==
    IF ~HasSession(user) THEN Unauthorized(db)
    ELSE IF ~IsDefined(body.name)
    THEN Resp(db, 400, Error("Name is required"), FALSE, TRUE)
    ELSE LET ids == IF IsDefined(body.yarnIds) THEN Range(Val(body.yarnIds))
                    ELSE {}
             row == [userId |-> user, name |-> Val(body.name)]
             created == [db EXCEPT
                 !.projects = [p \in DOMAIN @ \cup {newId} |->
                                  IF p = newId THEN row ELSE @[p]],
                 !.links = @ \cup {<<y, newId>> : y \in ids}]
         IN IF ids \subseteq DOMAIN db.yarns
            THEN Resp(created, 200, ProjectRow(created, newId), TRUE, TRUE)
            ELSE Resp(db, 500, Error("Something went wrong"), TRUE, TRUE)

(* /api/projects/[id] *)
ProjectGET(db, user, id) ==
    IF ~HasSession(user) THEN Unauthorized(db)
    ELSE IF ~findUnique(db.projects, id, user)
    THEN Resp(db, 404, Error("Project not found"), TRUE, FALSE)
    ELSE Resp(db, 200, ProjectRow(db, id), TRUE, FALSE)

(* if (yarnIds) { update yarns: set + connect } *)
patchYarns(prev, id, body) ==
    IF ~prev.ok \/ ~IsDefined(body.yarnIds) THEN prev
    ELSE setYarns(prev.db, id, Val(body.yarnIds))

ProjectPATCH(db, user, id, body) ==
    IF ~HasSession(user) THEN Unauthorized(db)
    ELSE IF ~findUnique(db.projects, id, user)
    THEN Resp(db, 404, Error("Project not found"), TRUE, FALSE)
    ELSE LET scalars == Done(updateProjectData(db, id, body))
             yrn == patchYarns(scalars, id, body)
         IN IF yrn.ok
            THEN Resp(yrn.db, 200, ProjectRow(yrn.db, id), TRUE, TRUE)
            ELSE Resp(yrn.db, 500, Error("Error updating project"), TRUE, TRUE)

ProjectDELETEIdempotent(db, user, id) ==
    IF ~HasSession(user) THEN Unauthorized(db)
    ELSE IF id \notin DOMAIN db.projects
    THEN Resp(db, 200, Message("Project deleted successfully"), TRUE, FALSE)
    ELSE IF ~findUnique(db.projects, id, user)
    THEN Resp(db, 404, Error("Project not found"), TRUE, FALSE)
    ELSE Resp(deleteProject(db, id), 200,
              Message("Project deleted successfully"), TRUE, FALSE)

ProjectDELETE(db, user, id) ==
    IF ~HasSession(user) THEN Unauthorized(db)
    ELSE IF ~findUnique(db.projects, id, user)
    THEN Resp(db, 404, Error("Project not found"), TRUE, FALSE)
    ELSE Resp(deleteProject(db, id), 200,
              Message("Project deleted successfully"), TRUE, FALSE)

----------------------------------------------------------------------------
(* The Yarn form (new and edit page).  A text is the sequence of its
   characters. *)

DyeStatus == {"NOT_TO_BE_DYED", "TO_BE_DYED", "HAS_BEEN_DYED"}

Delimiter == <<"-", "-", ">">>

(* The least position where d occurs in s, 0 when it does not occur *)
indexOf(s, d) ==
    LET at == {i \in 1..(Len(s) - Len(d) + 1) :
                  SubSeq(s, i, i + Len(d) - 1) = d}
    IN IF at = {} THEN 0 ELSE CHOOSE i \in at : \A j \in at : i <= j

(* value.includes("-->") *)
includes(s, d) == indexOf(s, d) # 0

(* value.split("-->"): the pieces between every occurrence, left to right *)
RECURSIVE split(_, _)
split(s, d) ==
    IF indexOf(s, d) = 0 THEN <<s>>
    ELSE <<SubSeq(s, 1, indexOf(s, d) - 1)>>
         \o split(SubSeq(s, indexOf(s, d) + Len(d), Len(s)), d)

RECURSIVE trimStart(_)
trimStart(s) ==
    IF s # <<>> /\ Head(s) = " " THEN trimStart(Tail(s)) ELSE s

RECURSIVE trimEnd(_)
trimEnd(s) ==
    IF s # <<>> /\ s[Len(s)] = " " THEN trimEnd(SubSeq(s, 1, Len(s) - 1))
    ELSE s

(* part.trim() *)
trim(s) == trimEnd(trimStart(s))

(* The whole text after the first occurrence of d *)
restAfterFirst(s, d) == SubSeq(s, indexOf(s, d) + Len(d), Len(s))

handleColorChangeFirstOnly(f, value) ==
    IF includes(value, Delimiter)
    THEN [f EXCEPT !.currColor = trim(SubSeq(value, 1,
                                             indexOf(value, Delimiter) - 1)),
                   !.nextColor = trim(restAfterFirst(value, Delimiter)),
                   !.dyeStatus = "TO_BE_DYED"]
    ELSE [f EXCEPT !.currColor = value]

handleColorChangeClearing(f, value) ==
    IF includes(value, Delimiter)
    THEN handleColorChangeFirstOnly(f, value)
    ELSE [f EXCEPT !.currColor = trim(value), !.nextColor = <<>>]

(* onChange of the currColor input: setValue on the form's fields *)
handleColorChange(f, value) ==
    IF includes(value, Delimiter)
    THEN LET parts == split(value, Delimiter)
             colorParts == [i \in 1..Len(parts) |-> trim(parts[i])]
         IN [f EXCEPT !.currColor = colorParts[1],
                      !.nextColor = colorParts[2],
                      !.dyeStatus = "TO_BE_DYED"]
    ELSE [f EXCEPT !.currColor = value]

(* onValueChange of the dye status Select *)
onValueChange(f, value) == [f EXCEPT !.dyeStatus = value]

(* The registered nextColor input *)
nextColorChange(f, value) == [f EXCEPT !.nextColor = value]

RECURSIVE SetToSeq(_)
SetToSeq(S) ==
    IF S = {} THEN <<>>
    ELSE LET x == CHOOSE y \in S : TRUE IN <<x>> \o SetToSeq(S \ {x})

(* onChange of the project selection: setValue("projectIds", values) *)
onChange(f, values) == [f EXCEPT !.projectIds = values]

(* onSubmit: the body of PATCH /api/yarns/{id}, the form's values with the
   tags and organization entries the page loaded *)
onSubmit(db, f, id) ==
    [NoBody EXCEPT !.brand = Some(db.yarns[id].brand),
                   !.currColor = Some(f.currColor),
                   !.nextColor = Some(f.nextColor),
                   !.dyeStatus = Some(f.dyeStatus),
                   !.tags = Some(db.tags[id]),
                   !.organization = Some(db.organization[id]),
                   !.projectIds = Some(f.projectIds)]

----------------------------------------------------------------------------
(* The enumerated requests *)

TagLists == SeqsUpTo(TagNames, MaxTags)
ProjectIdLists == SeqsUpTo(ProjectIds \cup {MissingId}, MaxIds)
YarnIdLists == SeqsUpTo(YarnIds \cup {MissingId}, MaxIds)
OrgEntry(t, q) == [typeId |-> t, quantity |-> q]

YarnBody(b, t, o, p) ==
    [NoBody EXCEPT !.brand = b, !.tags = t, !.organization = o,
                   !.projectIds = p]
ProjectBody(n, y) == [NoBody EXCEPT !.name = n, !.yarnIds = y]
PhotoBodies == {[NoBody EXCEPT !.url = u] : u \in Opt(Urls)}

YarnPaths == YarnIds \cup {MissingId}
ProjectPaths == ProjectIds \cup {MissingId}

----------------------------------------------------------------------------
(* State machine: a step handles one request to completion, or sends the
   response it produced *)

Idle == [op |-> "idle", user |-> NoSession, id |-> MissingId, body |-> NoBody,
         status |-> 0, resp |-> Message(""), storage |-> FALSE,
         again |-> FALSE]

(* last: the request just handled (its body as far as the handler read it),
   the response on its way to the caller, and whether the request repeats
   the one before it *)
Commit(op, user, id, body, r, again) ==
    /\ yarns' = r.db.yarns
    /\ projects' = r.db.projects
    /\ tags' = r.db.tags
    /\ organization' = r.db.organization
    /\ photos' = r.db.photos
    /\ links' = r.db.links
    /\ last' = [op |-> op, user |-> user, id |-> id,
                body |-> IF r.parsed THEN body ELSE NoBody,
                status |-> r.status, resp |-> r.body, storage |-> r.storage,
                again |-> again]
    /\ UNCHANGED <<form, typed, event, inflight>>

Apply(op, user, id, body, r) ==
    /\ last = Idle
    /\ Commit(op, user, id, body, r, FALSE)

(* The requests the server is working on at the same time *)
Slots == {"r1", "r2"}

NoRequest == [op |-> "none", user |-> NoSession, id |-> MissingId,
              body |-> NoBody, calls |-> <<>>, done |-> FALSE, status |-> 0,
              existed |-> FALSE]

Init ==
    /\ yarns = [y \in YarnIds |->
                  [userId |-> IF y = "y1" THEN "A" ELSE "B", brand |-> "b1",
                   currColor |-> <<>>, nextColor |-> <<>>,
                   dyeStatus |-> "NOT_TO_BE_DYED", weight |-> 4]]
    /\ projects = [p \in {"p1"} |-> [userId |-> "A", name |-> "n1"]]
    /\ tags = [y \in YarnIds |-> IF y = "y1" THEN <<"x">> ELSE <<"y">>]
    /\ organization = [y \in YarnIds |-> <<OrgEntry("t1", 1)>>]
    /\ photos = [y \in YarnIds |-> <<>>]
    /\ links = {<<"y1", "p1">>}
    /\ freeIds = ProjectIds \ {"p1"}
    /\ last = Idle
    /\ form = [currColor |-> <<>>, nextColor |-> <<>>,
               dyeStatus |-> "NOT_TO_BE_DYED", projectIds |-> <<"p1">>]
    /\ typed = Undefined
    /\ event = "reset"
    /\ inflight = [slot \in Slots |-> NoRequest]

Respond ==
    /\ last # Idle
    /\ last' = Idle
    /\ UNCHANGED <<yarns, projects, tags, organization, photos, links, freeIds,
                   form, typed, event, inflight>>

DoYarnsGET ==
    /\ \E u \in Sessions : Apply("YarnsGET", u, MissingId, NoBody, YarnsGET(DB, u))
    /\ UNCHANGED freeIds

DoYarnGET ==
    /\ \E u \in Sessions, id \in YarnPaths :
          Apply("YarnGET", u, id, NoBody, YarnGET(DB, u, id))
    /\ UNCHANGED freeIds

(* The body is an input the handler takes when it reaches request.json() *)
DoYarnPATCH(Bodies) ==
    /\ \E u \in Sessions, id \in YarnPaths :
          IF YarnPATCH(DB, u, id, NoBody).parsed
          THEN \E b \in Bodies :
                  Apply("YarnPATCH", u, id, b, YarnPATCH(DB, u, id, b))
          ELSE Apply("YarnPATCH", u, id, NoBody, YarnPATCH(DB, u, id, NoBody))
    /\ UNCHANGED freeIds

DoLegacyYarnPATCH(Bodies) ==
    /\ \E u \in Sessions, id \in YarnPaths :
          IF LegacyYarnPATCH(DB, u, id, NoBody).parsed
          THEN \E b \in Bodies :
                  Apply("LegacyYarnPATCH", u, id, b,
                        LegacyYarnPATCH(DB, u, id, b))
          ELSE Apply("LegacyYarnPATCH", u, id, NoBody,
                     LegacyYarnPATCH(DB, u, id, NoBody))
    /\ UNCHANGED freeIds

DoYarnPOST ==
    /\ \E u \in Sessions :
          IF YarnPOST(DB, u, NoBody).parsed
          THEN \E b \in {NoBody, [NoBody EXCEPT !.name = Some("n1")]} :
                  Apply("YarnPOST", u, MissingId, b, YarnPOST(DB, u, b))
          ELSE Apply("YarnPOST", u, MissingId, NoBody, YarnPOST(DB, u, NoBody))
    /\ UNCHANGED freeIds

DoYarnDELETE ==
    /\ \E u \in Sessions, id \in YarnPaths :
          Apply("YarnDELETE", u, id, NoBody, YarnDELETE(DB, u, id))
    /\ UNCHANGED freeIds

DoPhotoPOST ==
    /\ \E u \in Sessions, id \in YarnPaths :
          /\ id \in YarnIds => Len(photos[id]) < MaxPhotos
          /\ IF PhotoPOST(DB, u, id, NoBody).parsed
             THEN \E b \in PhotoBodies :
                     Apply("PhotoPOST", u, id, b, PhotoPOST(DB, u, id, b))
             ELSE Apply("PhotoPOST", u, id, NoBody, PhotoPOST(DB, u, id, NoBody))
    /\ UNCHANGED freeIds

DoLegacyPhotoPOST ==
    /\ \E u \in Sessions, id \in YarnPaths :
          Apply("LegacyPhotoPOST", u, id, NoBody,
                LegacyPhotoPOST(DB, u, id, NoBody))
    /\ UNCHANGED freeIds

DoLegacyPhotoDELETE ==
    /\ \E u \in Sessions, id \in YarnPaths :
          Apply("LegacyPhotoDELETE", u, id, NoBody,
                LegacyPhotoDELETE(DB, u, id, NoBody))
    /\ UNCHANGED freeIds

UploadBodies ==
    {[NoBody EXCEPT !.file = f, !.isPrimary = p] :
        f \in Opt({"f"}), p \in Opt({"true"})}

DoUploadPOST ==
    /\ \E u \in Sessions, id \in YarnPaths \cup {NoYarnId} :
          /\ id \in YarnIds => Len(photos[id]) < MaxUploads
          /\ IF UploadPOST(DB, u, id, NoBody).parsed
             THEN \E b \in UploadBodies :
                     Apply("UploadPOST", u, id, b, UploadPOST(DB, u, id, b))
             ELSE Apply("UploadPOST", u, id, NoBody,
                        UploadPOST(DB, u, id, NoBody))
    /\ UNCHANGED freeIds

DoOrganizationTypesGET ==
    /\ \E u \in Sessions :
          Apply("OrganizationTypesGET", u, MissingId, NoBody,
                OrganizationTypesGET(DB, u))
    /\ UNCHANGED freeIds

DoProjectsGET ==
    /\ \E u \in Sessions, f \in BOOLEAN :
          Apply("ProjectsGET", u, MissingId, NoBody, ProjectsGET(DB, u, f))
    /\ UNCHANGED freeIds

(* newId: the cuid of the row to create, an id no row ever had *)
DoProjectPOST(Bodies) ==
    \E u \in Sessions, newId \in freeIds :
        IF ProjectPOST(DB, u, NoBody, newId).parsed
        THEN \E b \in Bodies :
                LET r == ProjectPOST(DB, u, b, newId)
                IN /\ Apply("ProjectPOST", u, newId, b, r)
                   /\ freeIds' = IF r.status = 200 THEN freeIds \ {newId}
                                 ELSE freeIds
        ELSE /\ Apply("ProjectPOST", u, newId, NoBody,
                      ProjectPOST(DB, u, NoBody, newId))
             /\ UNCHANGED freeIds

DoProjectGET ==
    /\ \E u \in Sessions, id \in ProjectPaths :
          Apply("ProjectGET", u, id, NoBody, ProjectGET(DB, u, id))
    /\ UNCHANGED freeIds

DoProjectPATCH(Bodies) ==
    /\ \E u \in Sessions, id \in ProjectPaths :
          IF ProjectPATCH(DB, u, id, NoBody).parsed
          THEN \E b \in Bodies :
                  Apply("ProjectPATCH", u, id, b, ProjectPATCH(DB, u, id, b))
          ELSE Apply("ProjectPATCH", u, id, NoBody,
                     ProjectPATCH(DB, u, id, NoBody))
    /\ UNCHANGED freeIds

DoProjectDELETE ==
    /\ \E u \in Sessions, id \in ProjectPaths :
          Apply("ProjectDELETE", u, id, NoBody, ProjectDELETE(DB, u, id))
    /\ UNCHANGED freeIds

(* The caller sends its Yarn update a second time, unchanged *)
ResubmitYarnPATCH ==
    /\ last.op = "YarnPATCH"
    /\ ~last.again
    /\ last.status # 401
    /\ Commit("YarnPATCH", last.user, last.id, last.body,
              YarnPATCH(DB, last.user, last.id, last.body), TRUE)
    /\ UNCHANGED freeIds

----------------------------------------------------------------------------
(* Requests in flight at the same time.  A handler is the list of its
   awaited storage calls; a step of a request runs its next call, and the
   calls of two requests interleave in any order. *)

(* The awaited calls of PATCH /api/yarns/[id] for a body, in order *)
YarnPATCHCalls(body) ==
    <<"findUnique", "update">>
    \o (IF IsDefined(body.organization)
        THEN <<"organization.deleteMany">>
             \o (IF Len(Val(body.organization)) > 0
                 THEN <<"organization.create">> ELSE <<>>)
        ELSE <<>>)
    \o (IF IsDefined(body.tags)
        THEN <<"tags.deleteMany">>
             \o (IF Len(Val(body.tags)) > 0 THEN <<"tags.create">> ELSE <<>>)
        ELSE <<>>)
    \o (IF IsDefined(body.projectIds) THEN <<"projects.set">> ELSE <<>>)
    \o <<"findUnique.include">>

(* The awaited calls of the server action uploadYarnPhoto *)
uploadYarnPhotoCalls(body) ==
    <<"uploadFileToR2">>
    \o (IF isPrimary(body) THEN <<"yarnPhoto.updateMany">> ELSE <<>>)
    \o <<"yarnPhoto.create">>

YarnDELETECalls == <<"findUnique", "organization.deleteMany", "yarn.delete">>

ProjectDELETECalls == <<"project.findUnique", "project.delete">>

whereYarnUnchecked(db, id, result) == result

(* A write addressed to the Yarn id (where: { id }, or a row with the
   foreign key yarnId) throws when no Yarn has that id *)
whereYarn(db, id, result) ==
    IF id \in DOMAIN db.yarns THEN result ELSE Threw(db)

(* One awaited storage call of a request, on the store as it is then *)
call(db, req, name) ==
    CASE name = "update" ->
           IF req.id \in DOMAIN db.yarns
           THEN Done(updateYarnData(db, req.id, req.body))
           ELSE Threw(db)
      [] name = "organization.deleteMany" ->
           Done(deleteOrganization(db, req.id))
      [] name = "organization.create" ->
           whereYarn(db, req.id,
                     createOrganization(db, req.id, Val(req.body.organization)))
      [] name = "tags.deleteMany" ->
           whereYarn(db, req.id, Done(deleteTags(db, req.id)))
      [] name = "tags.create" ->
           whereYarn(db, req.id,
                     Done(createTags(db, req.id, Val(req.body.tags))))
      [] name = "projects.set" ->
           whereYarn(db, req.id,
                     setProjects(db, req.id, Val(req.body.projectIds)))
      [] name = "findUnique.include" -> Done(db)
      [] name = "uploadFileToR2" -> Done(db)
      [] name = "yarnPhoto.updateMany" -> Done(updateMany(db, req.id))
      [] name = "yarnPhoto.create" ->
           IF req.id \in DOMAIN db.yarns
           THEN Done(createYarnPhoto(db, req.id, Val(req.body.file),
                                     isPrimary(req.body)))
           ELSE Threw(db)
      [] name = "yarn.delete" ->
           IF req.id \in DOMAIN db.yarns THEN Done(deleteYarn(db, req.id))
           ELSE Threw(db)
      [] name = "project.delete" ->
           IF req.id \in DOMAIN db.projects
           THEN Done(deleteProject(db, req.id))
           ELSE Threw(db)

SetStore(db) ==
    /\ yarns' = db.yarns
    /\ projects' = db.projects
    /\ tags' = db.tags
    /\ organization' = db.organization
    /\ photos' = db.photos
    /\ links' = db.links

Finished(req, status) == [req EXCEPT !.calls = <<>>, !.done = TRUE,
                                     !.status = status]

(* What a handler answers before its first storage call, 0 when it goes on:
   no session; for an upload, no file or no yarnId *)
Entry(op, user, id, body) ==
    IF ~HasSession(user) THEN 401
    ELSE IF op = "uploadYarnPhoto" /\ (~IsDefined(body.file) \/ id = NoYarnId)
    THEN 400
    ELSE 0

(* The server takes a request *)
Receive(slot, op, user, id, body) ==
    LET req == [op |-> op, user |-> user, id |-> id, body |-> body,
                calls |-> CASE op = "YarnPATCH" -> YarnPATCHCalls(body)
                            [] op = "YarnDELETE" -> YarnDELETECalls
                            [] op = "ProjectDELETE" -> ProjectDELETECalls
                            [] op = "uploadYarnPhoto" ->
                                 uploadYarnPhotoCalls(body),
                done |-> FALSE, status |-> 0,
                existed |-> IF op = "ProjectDELETE" THEN id \in DOMAIN projects
                            ELSE id \in DOMAIN yarns]
    IN
    /\ last = Idle
    /\ inflight[slot] = NoRequest
    /\ inflight' = [inflight EXCEPT ![slot] =
          IF Entry(op, user, id, body) = 0 THEN req
          ELSE Finished(req, Entry(op, user, id, body))]
    /\ UNCHANGED <<store, freeIds, last, form, typed, event>>

(* The next awaited call of the request in the slot *)
Await(slot) ==
    LET req == inflight[slot]
        name == Head(req.calls)
        rest == [req EXCEPT !.calls = Tail(@)]
    IN /\ ~req.done
       /\ req.calls # <<>>
       /\ IF name = "findUnique"
          THEN /\ inflight' = [inflight EXCEPT ![slot] =
                     IF findUnique(yarns, req.id, req.user) THEN rest
                     ELSE Finished(req, 404)]
               /\ UNCHANGED store
          ELSE IF name = "project.findUnique"
          THEN /\ inflight' = [inflight EXCEPT ![slot] =
                     IF findUnique(projects, req.id, req.user) THEN rest
                     ELSE Finished(req, 404)]
               /\ UNCHANGED store
          ELSE LET r == call(DB, req, name)
               IN /\ SetStore(r.db)
                  /\ inflight' = [inflight EXCEPT ![slot] =
                        IF ~r.ok THEN Finished(req, 500)
                        ELSE IF rest.calls = <<>> THEN Finished(req, 200)
                        ELSE rest]
       /\ UNCHANGED <<freeIds, last, form, typed, event>>

(* The response has reached the caller *)
Deliver(slot) ==
    /\ inflight[slot].done
    /\ inflight' = [inflight EXCEPT ![slot] = NoRequest]
    /\ UNCHANGED <<store, freeIds, last, form, typed, event>>

(* The edit page of Yarn y1, opened by its owner *)
FormYarn == "y1"
FormUser == "A"

(* The user types or pastes a text into the color input *)
DoHandleColorChange(Values) ==
    /\ last = Idle
    /\ \E value \in Values :
          /\ form' = handleColorChange(form, value)
          /\ typed' = Some(value)
    /\ event' = "color"
    /\ UNCHANGED <<store, freeIds, last, inflight>>

DoOnValueChange ==
    /\ last = Idle
    /\ \E value \in DyeStatus : form' = onValueChange(form, value)
    /\ event' = "dyeStatus"
    /\ UNCHANGED <<store, freeIds, last, typed, inflight>>

DoNextColorChange(Values) ==
    /\ last = Idle
    /\ \E value \in Values : form' = nextColorChange(form, value)
    /\ event' = "nextColor"
    /\ UNCHANGED <<store, freeIds, last, typed, inflight>>

DoOnSubmit ==
    /\ last = Idle
    /\ Commit("YarnPATCH", FormUser, FormYarn, onSubmit(DB, form, FormYarn),
              YarnPATCH(DB, FormUser, FormYarn, onSubmit(DB, form, FormYarn)),
              FALSE)
    /\ UNCHANGED freeIds

(* Every handler, each with a few bodies *)
BasicYarnBodies ==
    {NoBody, YarnBody(Some("b2"), Some(<<>>), Some(<<>>), Some(<<"p1">>))}
BasicProjectBodies ==
    {NoBody, ProjectBody(Some("n1"), Some(<<"y1">>))}

Next ==
    \/ DoYarnsGET
    \/ DoYarnPOST
    \/ DoYarnGET
    \/ DoYarnPATCH(BasicYarnBodies)
    \/ DoLegacyYarnPATCH(BasicYarnBodies)
    \/ DoYarnDELETE
    \/ DoPhotoPOST
    \/ DoOrganizationTypesGET
    \/ DoProjectsGET
    \/ DoProjectPOST(BasicProjectBodies)
    \/ DoProjectGET
    \/ DoProjectPATCH(BasicProjectBodies)
    \/ DoProjectDELETE
    \/ Respond

Spec == Init /\ [][Next]_vars

(* Requests that exercise ownership and the Yarn-Project link *)
LinkYarnBodies ==
    {YarnBody(b, Undefined, Undefined, p) :
        b \in Opt({"b2"}), p \in Opt(ProjectIdLists)}
LinkProjectBodies ==
    {ProjectBody(n, y) : n \in Opt({"n1"}), y \in Opt(YarnIdLists)}

NextLinks ==
    \/ DoYarnsGET
    \/ DoYarnGET
    \/ DoYarnPATCH(LinkYarnBodies)
    \/ DoYarnDELETE
    \/ DoProjectsGET
    \/ DoProjectPOST(LinkProjectBodies)
    \/ DoProjectGET
    \/ DoProjectPATCH(LinkProjectBodies)
    \/ DoProjectDELETE
    \/ Respond

SpecLinks == Init /\ [][NextLinks]_vars

(* Yarn updates that combine scalar fields with the three associations *)
AssocYarnBodies ==
    {YarnBody(b, t, o, p) :
        b \in Opt({"b2"}),
        t \in Opt({<<>>, <<"y">>}),
        o \in Opt({<<>>, <<OrgEntry("t1", 1)>>, <<OrgEntry(MissingId, 1)>>}),
        p \in Opt({<<>>, <<"p1">>, <<MissingId>>})}
LegacyYarnBodies ==
    {b \in AssocYarnBodies : b.projectIds \in {Undefined, Some(<<>>)}}

NextAssoc ==
    \/ DoYarnGET
    \/ DoYarnPATCH(AssocYarnBodies)
    \/ DoLegacyYarnPATCH(LegacyYarnBodies)
    \/ DoYarnDELETE
    \/ Respond

SpecAssoc == Init /\ [][NextAssoc]_vars

(* Yarn updates that replace one association, and their repetition *)
ReplaceYarnBodies ==
    {YarnBody(Undefined, t, Undefined, Undefined) : t \in Opt(TagLists)}
    \cup {YarnBody(Undefined, Undefined, Undefined, p) :
             p \in Opt(ProjectIdLists)}

NextReplace ==
    \/ DoYarnGET
    \/ DoYarnPATCH(ReplaceYarnBodies)
    \/ ResubmitYarnPATCH
    \/ DoProjectPOST({ProjectBody(Some("n1"), Undefined)})
    \/ Respond

SpecReplace == Init /\ [][NextReplace]_vars

(* Yarn updates that replace the organization entries; quantity is an Int
   column, and the handler passes on whatever integer the body holds *)
Quantities == {0, 1}
OrganizationLists ==
    SeqsUpTo({OrgEntry(t, q) : t \in OrgTypeIds \cup {MissingId},
                               q \in Quantities}, MaxEntries)
OrganizationYarnBodies ==
    {YarnBody(Undefined, Undefined, o, Undefined) : o \in Opt(OrganizationLists)}

NextOrganization ==
    \/ DoYarnGET
    \/ DoYarnPATCH(OrganizationYarnBodies)
    \/ DoYarnDELETE
    \/ Respond

SpecOrganization == Init /\ [][NextOrganization]_vars

(* Updates of scalar fields; weight is an Int column and userId a String
   column, and the handlers pass on what the body holds *)
Weights == {7, 8}
ScalarYarnBodies ==
    {NoBody}
    \cup {[NoBody EXCEPT !.dyeStatus = Some(v)] : v \in DyeStatus}
    \cup {[NoBody EXCEPT !.weight = Some(w)] : w \in Weights}
    \cup {[NoBody EXCEPT !.userId = Some(u)] : u \in Users}
    \cup {[NoBody EXCEPT !.dyeStatus = Some("TO_BE_DYED"), !.weight = Some(7)]}
ScalarProjectBodies ==
    {NoBody}
    \cup {[NoBody EXCEPT !.name = Some(n)] : n \in ProjectNames}
    \cup {[NoBody EXCEPT !.userId = Some(u)] : u \in Users}

NextScalars ==
    \/ DoYarnGET
    \/ DoYarnPATCH(ScalarYarnBodies)
    \/ DoProjectGET
    \/ DoProjectPATCH(ScalarProjectBodies)
    \/ Respond

SpecScalars == Init /\ [][NextScalars]_vars

(* A fetch the page has sent and does not wait for: the server works on it
   along with the requests sent before *)
Send(slot, body) ==
    /\ inflight[slot] = NoRequest
    /\ inflight' = [inflight EXCEPT ![slot] =
          [op |-> "YarnPATCH", user |-> FormUser, id |-> FormYarn,
           body |-> body, calls |-> YarnPATCHCalls(body), done |-> FALSE,
           status |-> 0, existed |-> FormYarn \in DOMAIN yarns]]

(* The user changes the project selection: the form takes the values and
   PATCH {projectIds: values} is sent at once *)
DoOnChange(Values) ==
    /\ last = Idle
    /\ event # "submit"
    /\ \E values \in Values, slot \in Slots :
          /\ form' = onChange(form, values)
          /\ Send(slot, [NoBody EXCEPT !.projectIds = Some(values)])
    /\ event' = "projectIds"
    /\ UNCHANGED <<store, freeIds, last, typed>>

(* The user submits the form: PATCH with the form's values is sent; the
   page is left when the answer arrives *)
DoOnSubmitSend ==
    /\ last = Idle
    /\ event # "submit"
    /\ \E slot \in Slots : Send(slot, onSubmit(DB, form, FormYarn))
    /\ event' = "submit"
    /\ UNCHANGED <<store, freeIds, last, form, typed>>

(* Two requests of the owner of Yarn y1 and Projects p1, p2 at a time *)
ConcurrentYarnBodies ==
    {[NoBody EXCEPT !.tags = Some(t)] : t \in {<<"x">>, <<"y">>}}
    \cup {[NoBody EXCEPT !.organization = Some(<<OrgEntry("t1", q)>>)] :
             q \in {1, 2}}
    \cup {[NoBody EXCEPT !.projectIds = Some(p)] :
             p \in {<<"p1">>, <<"p2", "p2">>}}

InitConcurrent ==
    /\ yarns = [y \in YarnIds |->
                  [userId |-> IF y = "y1" THEN "A" ELSE "B", brand |-> "b1",
                   currColor |-> <<>>, nextColor |-> <<>>,
                   dyeStatus |-> "NOT_TO_BE_DYED", weight |-> 4]]
    /\ projects = [p \in ProjectIds |-> [userId |-> "A", name |-> "n1"]]
    /\ tags = [y \in YarnIds |-> IF y = "y1" THEN <<"x">> ELSE <<"y">>]
    /\ organization = [y \in YarnIds |-> <<OrgEntry("t1", 1)>>]
    /\ photos = [y \in YarnIds |-> <<>>]
    /\ links = {<<"y1", "p1">>}
    /\ freeIds = {}
    /\ last = Idle
    /\ form = [currColor |-> <<>>, nextColor |-> <<>>,
               dyeStatus |-> "NOT_TO_BE_DYED", projectIds |-> <<"p1">>]
    /\ typed = Undefined
    /\ event = "reset"
    /\ inflight = [slot \in Slots |-> NoRequest]

NextConcurrent ==
    \/ \E slot \in Slots, body \in ConcurrentYarnBodies :
          Receive(slot, "YarnPATCH", FormUser, FormYarn, body)
    \/ \E slot \in Slots : Receive(slot, "YarnDELETE", FormUser, FormYarn, NoBody)
    \/ \E slot \in Slots : Receive(slot, "ProjectDELETE", FormUser, "p1", NoBody)
    \/ \E slot \in Slots : Await(slot)
    \/ \E slot \in Slots : Deliver(slot)

SpecConcurrent == InitConcurrent /\ [][NextConcurrent]_vars

(* The photo routes, one request at a time *)
NextPhotos ==
    \/ DoPhotoPOST
    \/ DoLegacyPhotoPOST
    \/ DoLegacyPhotoDELETE
    \/ DoUploadPOST
    \/ Respond

SpecPhotos == Init /\ [][NextPhotos]_vars

(* The owner's uploads to Yarn y1 through the server action, two at a time,
   beside uploads through the route *)
Uploading(id) ==
    {slot \in Slots : /\ inflight[slot].op = "uploadYarnPhoto"
                      /\ inflight[slot].id = id
                      /\ ~inflight[slot].done}

DoUploadYarnPhoto ==
    /\ Len(photos[FormYarn]) + Cardinality(Uploading(FormYarn)) < MaxUploads
    /\ \E slot \in Slots, b \in UploadBodies :
          Receive(slot, "uploadYarnPhoto", FormUser, FormYarn, b)

NextUpload ==
    \/ DoUploadYarnPhoto
    \/ \E slot \in Slots : Await(slot)
    \/ \E slot \in Slots : Deliver(slot)
    \/ DoUploadPOST
    \/ Respond

SpecUpload == Init /\ [][NextUpload]_vars

(* The edit page: selection changes and the submit, none waited for *)
Selections == {<<>>, <<"p1">>, <<"p2">>}

NextSelect ==
    \/ DoOnChange(Selections)
    \/ DoOnSubmitSend
    \/ \E slot \in Slots : Await(slot)
    \/ \E slot \in Slots : Deliver(slot)

SpecSelect == InitConcurrent /\ [][NextSelect]_vars

(* The texts of up to MaxPieces pieces *)
Pieces == {<<"A">>, <<" ">>, <<"-">>, Delimiter}

RECURSIVE Concat(_)
Concat(ps) == IF ps = <<>> THEN <<>> ELSE Head(ps) \o Concat(Tail(ps))

Texts == {Concat(ps) : ps \in SeqsUpTo(Pieces, MaxPieces)}

NextColorTexts == {<<>>, <<"B">>}

(* The color handler on every text *)
NextColor ==
    \/ DoHandleColorChange(Texts)
    \/ DoOnValueChange
    \/ DoNextColorChange(NextColorTexts)

SpecColor == Init /\ [][NextColor]_vars

(* Editing the form in any order and submitting it *)
ColorTexts ==
    {<<"A", " ", "-", "-", ">", " ", "B">>,
     <<"A", "-", "-", ">", "B", "-", "-", ">", "C">>,
     <<" ", "A", " ">>,
     <<"A", "-", ">", "B">>}

NextForm ==
    \/ DoHandleColorChange(ColorTexts)
    \/ DoOnValueChange
    \/ DoNextColorChange(NextColorTexts)
    \/ DoOnSubmit
    \/ Respond

SpecForm == Init /\ [][NextForm]_vars

----------------------------------------------------------------------------
(* Properties *)

YarnRowOps == {"YarnGET", "YarnPATCH", "YarnDELETE"}
ProjectRowOps == {"ProjectGET", "ProjectPATCH", "ProjectDELETE"}

(* The rows the addressed id names in a table, and who owns it *)
IsForeign(rows, id, user) ==
    user \in Users /\ id \in DOMAIN rows /\ rows[id].userId # user

(* C1: a get, update or delete of a Yarn or Project made with the session of
   a user who does not own the row answers 404 and changes nothing in the
   store: not the row, not its scalar fields, not its tags, organization
   entries, photos or links. *)
C1_OwnershipIsolation ==
    [][(\/ last'.op \in YarnRowOps /\ IsForeign(yarns, last'.id, last'.user)
        \/ last'.op \in ProjectRowOps
             /\ IsForeign(projects, last'.id, last'.user))
       => (last'.status = 404 /\ UNCHANGED store)]_vars

C1_Witness ==
    /\ last.op = "YarnPATCH"
    /\ IsForeign(yarns, last.id, last.user)
    /\ last.status = 404
    /\ Len(tags[last.id]) > 0
    /\ \E p \in DOMAIN projects : <<last.id, p>> \in links

Foreign(rows, user) == {id \in DOMAIN rows : rows[id].userId # user}

(* C4: a Yarn update whose projectIds, or a Project update or create whose
   yarnIds, names a row owned by another user answers 404 and leaves the
   links as they were. *)
C4_ForeignIdsRejected ==
    [][(\/ /\ last'.op = "YarnPATCH"
           /\ IsDefined(last'.body.projectIds)
           /\ Range(Val(last'.body.projectIds))
                 \cap Foreign(projects, last'.user) # {}
        \/ /\ last'.op \in {"ProjectPATCH", "ProjectPOST"}
           /\ IsDefined(last'.body.yarnIds)
           /\ Range(Val(last'.body.yarnIds))
                 \cap Foreign(yarns, last'.user) # {})
       => (last'.status = 404 /\ links' = links)]_vars

(* Every link joins a Yarn and a Project of the same owner *)
LinksJoinSameOwner ==
    \A l \in links : yarns[l[1]].userId = projects[l[2]].userId

(* C5: every Yarn and Project in a response, at the top level or nested in
   another row's relation, is owned by the user the response goes to. *)
C5_ReturnedRowsOwnedByCaller ==
    last.user \in Users =>
        /\ \A y \in last.resp.yarns \cap DOMAIN yarns :
              yarns[y].userId = last.user
        /\ \A p \in last.resp.projects \cap DOMAIN projects :
              projects[p].userId = last.user

(* C6: a request without a session user id is answered 401 with no entity
   data, and the handler makes no storage call and changes nothing. *)
C6_UnauthorizedBeforeStorage ==
    [][(last'.op # "idle" /\ last'.user = NoSession)
       => /\ last'.status = 401
          /\ last'.resp = Error("Unauthorized")
          /\ ~last'.storage
          /\ UNCHANGED <<store, freeIds>>]_vars

C6_Witness ==
    /\ last.op = "PhotoPOST"
    /\ last.user = NoSession
    /\ last.id \in DOMAIN yarns
    /\ last.status = 401

(* What the caller sees of a handler's result *)
View(r) == [status |-> r.status, body |-> r.body]

(* The responses user u gets to every get, update and delete in store db *)
RowResponses(db, u) ==
    [yarnGet |-> [id \in YarnPaths |-> View(YarnGET(db, u, id))],
     yarnPatch |-> [id \in YarnPaths |->
                      [b \in LinkYarnBodies |-> View(YarnPATCH(db, u, id, b))]],
     yarnDelete |-> [id \in YarnPaths |-> View(YarnDELETE(db, u, id))],
     projectGet |-> [id \in ProjectPaths |-> View(ProjectGET(db, u, id))],
     projectPatch |-> [id \in ProjectPaths |->
                         [b \in LinkProjectBodies |->
                             View(ProjectPATCH(db, u, id, b))]],
     projectDelete |-> [id \in ProjectPaths |->
                          View(ProjectDELETE(db, u, id))]]

(* The addressed id alone: a 404 for another user's row is the 404 of an id
   that names no row, whatever the body *)
ForeignIdAnsweredAsMissing ==
    last = Idle =>
        \A u \in Users :
            /\ \A id \in Foreign(yarns, u) :
                  /\ RowResponses(DB, u).yarnGet[id]
                        = RowResponses(DB, u).yarnGet[MissingId]
                  /\ RowResponses(DB, u).yarnDelete[id]
                        = RowResponses(DB, u).yarnDelete[MissingId]
                  /\ \A b1, b2 \in LinkYarnBodies :
                        RowResponses(DB, u).yarnPatch[id][b1]
                           = RowResponses(DB, u).yarnPatch[MissingId][b2]
            /\ \A id \in Foreign(projects, u) :
                  /\ RowResponses(DB, u).projectGet[id]
                        = RowResponses(DB, u).projectGet[MissingId]
                  /\ RowResponses(DB, u).projectDelete[id]
                        = RowResponses(DB, u).projectDelete[MissingId]
                  /\ \A b1, b2 \in LinkProjectBodies :
                        RowResponses(DB, u).projectPatch[id][b1]
                           = RowResponses(DB, u).projectPatch[MissingId][b2]

(* C7: no response to a get, update or delete tells the caller whether a row
   of another user exists: the caller gets the same responses from the store
   as from the store without that row. *)
C7_NoExistenceLeak ==
    last = Idle =>
        \A u \in Users :
            /\ \A f \in Foreign(yarns, u) :
                  RowResponses(DB, u) = RowResponses(deleteYarn(DB, f), u)
            /\ \A f \in Foreign(projects, u) :
                  RowResponses(DB, u) = RowResponses(deleteProject(DB, f), u)

(* C2: a Yarn update that fails at any step leaves the store as it was
   before the request: scalar fields, Tag rows, OrganizationEntry rows and
   Project links. *)
C2_FailedUpdateChangesNothing ==
    [][(last'.op = "YarnPATCH" /\ last'.status # 200) => UNCHANGED store]_vars

(* C3: a Yarn update whose projectIds holds an id that names no Project
   fails, and the links are after it what they were before it. *)
C3_MissingProjectRejectsAll ==
    [][(/\ last'.op = "YarnPATCH"
        /\ IsDefined(last'.body.projectIds)
        /\ ~(Range(Val(last'.body.projectIds)) \subseteq DOMAIN projects))
       => (last'.status = 500 /\ links' = links)]_vars

C3_Witness ==
    /\ last.op = "YarnPATCH"
    /\ last.status = 500
    /\ IsDefined(last.body.projectIds)
    /\ \E valid \in DOMAIN projects, kept \in DOMAIN projects :
          /\ valid # kept
          /\ Range(Val(last.body.projectIds)) = {valid, MissingId}
          /\ ProjectsOf(DB, last.id) = {kept}

(* C8: in a Yarn update, an association whose field is absent from the body
   is left as stored, whatever the other fields are; a field supplied as the
   empty array leaves the Yarn without any row or link of that association
   when the update succeeds. *)
C8_AbsentUntouchedEmptyClears ==
    [][(last'.op \in {"YarnPATCH", "LegacyYarnPATCH"}
            /\ last'.status \in {200, 500})
       => /\ ~IsDefined(last'.body.tags) => tags' = tags
          /\ ~IsDefined(last'.body.organization) => organization' = organization
          /\ ~IsDefined(last'.body.projectIds) => links' = links
          /\ last'.status = 200 =>
                /\ last'.body.tags = Some(<<>>) => tags'[last'.id] = <<>>
                /\ last'.body.organization = Some(<<>>)
                      => organization'[last'.id] = <<>>
                /\ last'.body.projectIds = Some(<<>>)
                      => \A l \in links' : l[1] # last'.id]_vars

C8_Witness ==
    /\ last.op = "YarnPATCH"
    /\ last.status = 200
    /\ last.body.tags = Some(<<>>)
    /\ ~IsDefined(last.body.organization)
    /\ ~IsDefined(last.body.projectIds)
    /\ tags[last.id] = <<>>
    /\ organization[last.id] # <<>>
    /\ ProjectsOf(DB, last.id) # {}

(* How many rows of a Yarn's tag rows carry the name n *)
Count(rows, n) == Cardinality({i \in 1..Len(rows) : rows[i] = n})

(* C9: after a successful Yarn update with tags = L the Yarn's Tag rows are,
   as a multiset of names, L, and the Tag rows of every other Yarn are as
   before. *)
C9_TagsReplacedByList ==
    [][(last'.op = "YarnPATCH" /\ last'.status = 200
            /\ IsDefined(last'.body.tags))
       => /\ Len(tags'[last'.id]) = Len(Val(last'.body.tags))
          /\ \A n \in TagNames :
                Count(tags'[last'.id], n) = Count(Val(last'.body.tags), n)
          /\ \A y \in YarnIds \ {last'.id} : tags'[y] = tags[y]]_vars

C9_Witness ==
    /\ last.op = "YarnPATCH"
    /\ last.status = 200
    /\ ~last.again
    /\ last.body.tags = Some(<<"y", "y">>)
    /\ last.id = "y1"
    /\ Count(tags["y1"], "y") = 2
    /\ Count(tags["y1"], "x") = 0
    /\ tags["y2"] # <<>>

(* C10: sending the same Yarn update {tags: L} or {projectIds: S} a second
   time leaves the Tag rows and the links as the first one left them. *)
C10_ReplacementIdempotent ==
    [][last'.again =>
          /\ \A y \in YarnIds :
                /\ Len(tags'[y]) = Len(tags[y])
                /\ \A n \in TagNames : Count(tags'[y], n) = Count(tags[y], n)
          /\ links' = links
          /\ last'.status = last.status]_vars

C10_Witness ==
    /\ last.again
    /\ last.status = 200
    /\ last.body.tags = Some(<<"x", "y">>)
    /\ last.id = "y2"
    /\ tags["y2"] = <<"x", "y">>

C10_WitnessLinks ==
    /\ last.again
    /\ last.status = 200
    /\ IsDefined(last.body.projectIds)
    /\ Cardinality(ProjectsOf(DB, last.id)) = 2

(* C11: after a successful Yarn update with projectIds = S the Projects
   linked to the Yarn are exactly the ids in S, and the links of every other
   Yarn are as before. *)
C11_ProjectsReplacedBySet ==
    [][(last'.op = "YarnPATCH" /\ last'.status = 200
            /\ IsDefined(last'.body.projectIds))
       => /\ {l[2] : l \in {k \in links' : k[1] = last'.id}}
                = Range(Val(last'.body.projectIds))
          /\ {l \in links' : l[1] # last'.id}
                = {l \in links : l[1] # last'.id}]_vars

C11_Witness ==
    /\ last.op = "YarnPATCH"
    /\ last.status = 200
    /\ last.id = "y1"
    /\ last.body.projectIds = Some(<<"p2">>)
    /\ ProjectsOf(DB, "y1") = {"p2"}
    /\ "p1" \in DOMAIN projects
    /\ ProjectsOf(DB, "y2") # {}

(* C12: after a successful Yarn update with organization = E the Yarn's
   OrganizationEntry rows are one row per element of E with that element's
   typeId and quantity, none of the earlier rows remains, and the entries of
   every other Yarn are as before. *)
C12_OrganizationReplacedByList ==
    [][(last'.op = "YarnPATCH" /\ last'.status = 200
            /\ IsDefined(last'.body.organization))
       => /\ organization'[last'.id] = Val(last'.body.organization)
          /\ \A y \in YarnIds \ {last'.id} :
                organization'[y] = organization[y]]_vars

C12_Witness ==
    /\ last.op = "YarnPATCH"
    /\ last.status = 200
    /\ last.id = "y2"
    /\ last.body.organization = Some(<<OrgEntry("t1", 1), OrgEntry("t1", 1)>>)
    /\ Len(organization["y2"]) = 2
    /\ "y1" \in DOMAIN yarns
    /\ organization["y1"] # <<>>

(* Every stored OrganizationEntry has a positive quantity *)
StoredQuantitiesPositive ==
    \A y \in YarnIds :
        \A i \in 1..Len(organization[y]) : organization[y][i].quantity > 0

(* C13: a Yarn update whose organization list holds an entry with a quantity
   that is not positive is rejected and leaves the stored entries as they
   were, so every stored entry has quantity > 0 in every reachable state. *)
C13_NonPositiveQuantityRejected ==
    /\ []StoredQuantitiesPositive
    /\ [][(/\ last'.op = "YarnPATCH"
            /\ IsDefined(last'.body.organization)
            /\ \E i \in 1..Len(Val(last'.body.organization)) :
                  Val(last'.body.organization)[i].quantity <= 0)
           => (last'.status # 200 /\ organization' = organization)]_vars

(* C14: after a successful Project update with yarnIds = S the Yarns linked
   to the Project are exactly the ids in S; without yarnIds the Project's
   links stay; either way the links of every other Project are as before. *)
C14_YarnsReplacedBySet ==
    [][(last'.op = "ProjectPATCH" /\ last'.status = 200)
       => /\ IsDefined(last'.body.yarnIds) =>
                {l[1] : l \in {k \in links' : k[2] = last'.id}}
                   = Range(Val(last'.body.yarnIds))
          /\ ~IsDefined(last'.body.yarnIds) =>
                {l \in links' : l[2] = last'.id}
                   = {l \in links : l[2] = last'.id}
          /\ {l \in links' : l[2] # last'.id}
                = {l \in links : l[2] # last'.id}]_vars

C14_Witness ==
    /\ last.op = "ProjectPATCH"
    /\ last.status = 200
    /\ last.id = "p1"
    /\ last.body.yarnIds = Some(<<>>)
    /\ YarnsOf(DB, "p1") = {}
    /\ "p2" \in DOMAIN projects
    /\ YarnsOf(DB, "p2") = {"y1"}

(* C15: in every state, Project P is among the projects of the response to
   its owner's get of Yarn Y exactly when Yarn Y is among the yarns of the
   response to its owner's get of Project P. *)
C15_LinkSeenFromBothSides ==
    \A y \in DOMAIN yarns, p \in DOMAIN projects :
        p \in YarnGET(DB, yarns[y].userId, y).body.projects
            <=> y \in ProjectGET(DB, projects[p].userId, p).body.yarns

C15_Witness ==
    /\ last.op = "YarnPATCH"
    /\ last.status = 200
    /\ last.id = "y1"
    /\ last.body.projectIds = Some(<<"p2">>)
    /\ "y1" \in ProjectGET(DB, projects["p2"].userId, "p2").body.yarns
    /\ "p1" \in DOMAIN projects
    /\ "y1" \notin ProjectGET(DB, projects["p1"].userId, "p1").body.yarns

(* C16: a successful delete of a Yarn removes the Yarn with its Photo,
   OrganizationEntry and Tag rows and its links and deletes no Project; a
   successful delete of a Project removes the Project with its links and
   deletes no Yarn; the rows and links of every other Yarn and Project are
   as before. *)
C16_DeleteCascades ==
    [][/\ (last'.op = "YarnDELETE" /\ last'.status = 200) =>
             /\ last'.id \notin DOMAIN yarns'
             /\ tags'[last'.id] = <<>>
             /\ organization'[last'.id] = <<>>
             /\ photos'[last'.id] = <<>>
             /\ \A l \in links' : l[1] # last'.id
             /\ projects' = projects
             /\ \A y \in YarnIds \ {last'.id} :
                   /\ y \in DOMAIN yarns <=> y \in DOMAIN yarns'
                   /\ y \in DOMAIN yarns => yarns'[y] = yarns[y]
                   /\ tags'[y] = tags[y]
                   /\ organization'[y] = organization[y]
                   /\ photos'[y] = photos[y]
             /\ {l \in links' : l[1] # last'.id}
                   = {l \in links : l[1] # last'.id}
       /\ (last'.op = "ProjectDELETE" /\ last'.status = 200) =>
             /\ last'.id \notin DOMAIN projects'
             /\ \A l \in links' : l[2] # last'.id
             /\ UNCHANGED <<yarns, tags, organization, photos>>
             /\ \A p \in DOMAIN projects \ {last'.id} :
                   p \in DOMAIN projects' /\ projects'[p] = projects[p]
             /\ DOMAIN projects' \subseteq DOMAIN projects
             /\ {l \in links' : l[2] # last'.id}
                   = {l \in links : l[2] # last'.id}]_vars

C16_Witness ==
    /\ last.op = "YarnDELETE"
    /\ last.status = 200
    /\ last.id = "y2"
    /\ DOMAIN projects = ProjectIds
    /\ YarnsOf(DB, "p2") = {"y1"}
    /\ photos["y1"] # <<>>
    /\ tags["y1"] # <<>>
    /\ organization["y1"] # <<>>
    /\ <<"y1", "p1">> \in links

(* C17: a delete, by a signed-in user, of a Yarn or Project id that names no
   row answers 404, not a success message, and changes nothing. *)
C17_DeleteMissingIsNotFound ==
    [][(/\ last'.user \in Users
        /\ \/ last'.op = "YarnDELETE" /\ last'.id \notin DOMAIN yarns
           \/ last'.op = "ProjectDELETE" /\ last'.id \notin DOMAIN projects)
       => /\ last'.status = 404
          /\ last'.resp.kind = "error"
          /\ UNCHANGED store]_vars

C17_Witness ==
    /\ last.op = "ProjectDELETE"
    /\ last.user = "A"
    /\ last.id = "p1"
    /\ "p1" \notin DOMAIN projects
    /\ last.status = 404

(* C18: whenever the form is submitted after a text containing "-->" was
   entered in the color input, the dyeStatus sent and stored is TO_BE_DYED,
   in whatever order the color input and the selector were edited. *)
C18_DelimiterWinsOnSubmit ==
    [][(/\ last'.op = "YarnPATCH"
        /\ IsDefined(typed)
        /\ includes(Val(typed), Delimiter))
       => (/\ last'.body.dyeStatus = Some("TO_BE_DYED")
           /\ yarns'[FormYarn].dyeStatus = "TO_BE_DYED")]_vars

(* C19: a color input that contains "-->" sets currColor to the trimmed
   text before the first "-->" and nextColor to the trimmed whole text after
   the first "-->", later delimiters included. *)
C19_SplitOnFirstDelimiter ==
    [][(/\ event' = "color"
        /\ last' = last
        /\ includes(Val(typed'), Delimiter))
       => (/\ form'.currColor
                 = trim(SubSeq(Val(typed'), 1,
                               indexOf(Val(typed'), Delimiter) - 1))
           /\ form'.nextColor
                 = trim(restAfterFirst(Val(typed'), Delimiter)))]_vars

(* C20: a color input that does not contain "-->" becomes currColor as it
   is, untrimmed, and leaves nextColor and dyeStatus as they were. *)
C20_NoDelimiterSetsOnlyCurrColor ==
    [][(/\ event' = "color"
        /\ last' = last
        /\ ~includes(Val(typed'), Delimiter))
       => (/\ form'.currColor = Val(typed')
           /\ form'.nextColor = form.nextColor
           /\ form'.dyeStatus = form.dyeStatus)]_vars

C20_Witness ==
    /\ event = "color"
    /\ typed = Some(<<" ", "A", " ">>)
    /\ form.currColor = <<" ", "A", " ">>
    /\ form.nextColor = <<"A">>
    /\ form.dyeStatus = "TO_BE_DYED"

(* Every stored Yarn has a weight from 1 to 7 *)
StoredWeightsInRange ==
    \A y \in DOMAIN yarns : yarns[y].weight \in 1..7

(* C21: a Yarn update with a weight outside 1..7 answers 400 and stores
   nothing, so every stored Yarn has a weight from 1 to 7 in every reachable
   state. *)
C21_WeightOutOfRangeRejected ==
    /\ []StoredWeightsInRange
    /\ [][(/\ last'.op = "YarnPATCH"
            /\ IsDefined(last'.body.weight)
            /\ Val(last'.body.weight) \notin 1..7)
           => (last'.status = 400 /\ UNCHANGED store)]_vars

(* C22: a Yarn or Project update leaves every scalar field that is absent
   from its body as stored; a body without scalar fields changes none. *)
C22_AbsentScalarsKept ==
    [][/\ (last'.op = "YarnPATCH" /\ last'.status \in {200, 500}) =>
             /\ ~IsDefined(last'.body.brand)
                   => yarns'[last'.id].brand = yarns[last'.id].brand
             /\ ~IsDefined(last'.body.currColor)
                   => yarns'[last'.id].currColor = yarns[last'.id].currColor
             /\ ~IsDefined(last'.body.nextColor)
                   => yarns'[last'.id].nextColor = yarns[last'.id].nextColor
             /\ ~IsDefined(last'.body.dyeStatus)
                   => yarns'[last'.id].dyeStatus = yarns[last'.id].dyeStatus
             /\ ~IsDefined(last'.body.weight)
                   => yarns'[last'.id].weight = yarns[last'.id].weight
             /\ ~IsDefined(last'.body.userId)
                   => yarns'[last'.id].userId = yarns[last'.id].userId
       /\ (last'.op = "ProjectPATCH" /\ last'.status \in {200, 500}) =>
             /\ ~IsDefined(last'.body.name)
                   => projects'[last'.id].name = projects[last'.id].name
             /\ ~IsDefined(last'.body.userId)
                   => projects'[last'.id].userId = projects[last'.id].userId]_vars

C22_Witness ==
    /\ last.op = "YarnPATCH"
    /\ last.status = 200
    /\ last.body = [NoBody EXCEPT !.weight = Some(7)]
    /\ yarns[last.id].weight = 7
    /\ yarns[last.id].dyeStatus = "HAS_BEEN_DYED"

(* C26: in every state the owner of a Yarn can set its dyeStatus to each of
   the three values with one update, whatever the stored dyeStatus and color
   fields are: the update answers 200 and stores the value. *)
C26_AnyDyeStatusFromAny ==
    \A y \in DOMAIN yarns, v \in DyeStatus :
        LET r == YarnPATCH(DB, yarns[y].userId, y,
                           [NoBody EXCEPT !.dyeStatus = Some(v)])
        IN r.status = 200 /\ r.db.yarns[y].dyeStatus = v

C26_Witness ==
    /\ last.op = "YarnPATCH"
    /\ last.status = 200
    /\ last.body.dyeStatus = Some("HAS_BEEN_DYED")
    /\ yarns[FormYarn].dyeStatus = "HAS_BEEN_DYED"
    /\ yarns[FormYarn].nextColor # <<>>

(* C27: no update changes the userId of a Yarn or Project. *)
C27_OwnerNeverChanges ==
    [][/\ \A y \in DOMAIN yarns \cap DOMAIN yarns' :
             yarns'[y].userId = yarns[y].userId
       /\ \A p \in DOMAIN projects \cap DOMAIN projects' :
             projects'[p].userId = projects[p].userId]_vars

(* C23: when two updates of the same Yarn that both replace the same
   association (tags, organization or projectIds) have both completed with
   200, the stored association is the list of one of them in full: not a
   union or mixture of the two, and not empty when both lists are non-empty. *)
C23_ConcurrentReplaceKeepsOneList ==
    LET a == inflight["r1"]
        b == inflight["r2"]
    IN (/\ a.done /\ b.done
        /\ a.op = "YarnPATCH" /\ b.op = "YarnPATCH"
        /\ a.id = b.id
        /\ a.status = 200 /\ b.status = 200)
       => /\ (IsDefined(a.body.tags) /\ IsDefined(b.body.tags))
               => tags[a.id] \in {Val(a.body.tags), Val(b.body.tags)}
          /\ (IsDefined(a.body.organization) /\ IsDefined(b.body.organization))
               => organization[a.id] \in {Val(a.body.organization),
                                          Val(b.body.organization)}
          /\ (IsDefined(a.body.projectIds) /\ IsDefined(b.body.projectIds))
               => ProjectsOf(DB, a.id) \in {Range(Val(a.body.projectIds)),
                                            Range(Val(b.body.projectIds))}

(* C24: every link joins a Yarn and a Project that exist, and a Yarn that
   is gone has no Tag, OrganizationEntry or Photo rows, whatever the
   interleaving of updates and deletes; links is the join table under its
   primary key (A, B), one row per pair also for a list that repeats an id. *)
C24_NoOrphanRows ==
    /\ links \subseteq (DOMAIN yarns) \X (DOMAIN projects)
    /\ \A y \in YarnIds \ DOMAIN yarns :
          tags[y] = <<>> /\ organization[y] = <<>> /\ photos[y] = <<>>

(* An update that had found its Yarn lost it to a delete before its write *)
C24_Witness ==
    /\ FormYarn \notin DOMAIN yarns
    /\ \E slot \in Slots :
          /\ inflight[slot].op = "YarnPATCH"
          /\ inflight[slot].done
          /\ inflight[slot].status = 500
          /\ IsDefined(inflight[slot].body.tags)

(* C28: of two DELETE requests of the owner for the same Yarn (or Project),
   both received while the row exists, one answers 200 and the other 404;
   neither answers 500. *)
C28_ConcurrentDeleteOnceNotFoundOnce ==
    LET a == inflight["r1"]
        b == inflight["r2"]
    IN (/\ a.done /\ b.done
        /\ a.op \in {"YarnDELETE", "ProjectDELETE"}
        /\ a.op = b.op /\ a.id = b.id
        /\ a.existed /\ b.existed)
       => {a.status, b.status} = {200, 404}

(* C29: once the form has been submitted after any project-selection
   changes and every request sent has completed, the Yarn's links are the
   last selection, whatever the order the server ran the requests in. *)
C29_LastSelectionStored ==
    (/\ event = "submit"
     /\ \A slot \in Slots :
           inflight[slot] = NoRequest
           \/ (inflight[slot].done /\ inflight[slot].status = 200))
    => ProjectsOf(DB, FormYarn) = Range(form.projectIds)

(* C25: in every reachable state each Yarn has at most one Photo with
   isPrimary = true, under any sequence or interleaving of uploads. *)
C25_AtMostOnePrimary ==
    \A y \in YarnIds :
        Cardinality({i \in DOMAIN photos[y] : photos[y][i].isPrimary}) <= 1

(* C30: a request adds a Photo row only to a Yarn its caller owns; adding a
   photo to a Yarn that does not exist or belongs to someone else answers
   404 and changes nothing; a Photo row is removed only by a photo delete
   addressed to that Yarn by its owner. *)
C30_PhotosOnlyByOwner ==
    [][(last = Idle /\ last' # Idle)
       => /\ \A y \in YarnIds :
                Len(photos'[y]) > Len(photos[y])
                => findUnique(yarns, y, last'.user)
          /\ (/\ last'.op \in {"PhotoPOST", "LegacyPhotoPOST"}
              /\ HasSession(last'.user)
              /\ (last'.op = "PhotoPOST" => IsDefined(last'.body.url))
              /\ ~findUnique(yarns, last'.id, last'.user))
             => (last'.status = 404 /\ UNCHANGED store)
          /\ \A y \in YarnIds :
                Len(photos'[y]) < Len(photos[y])
                => /\ last'.op = "LegacyPhotoDELETE"
                   /\ last'.id = y
                   /\ findUnique(yarns, y, last'.user)]_vars
====
